---- MODULE Spec2Model ----
(***************************************************************************)
(* Model of the MSY -> Ecwid synchronisation services of this repository.  *)
(*                                                                         *)
(*  Spec       the sync service (HybridMSYEcwidSync of src/unnamed/part_003*)
(*             and its predecessor MSYEcwidSync of src/server.js): feed     *)
(*             acquisition, per-record pipeline, batches, counters, report. *)
(*  SpecRetry  EcwidSyncManager.withRetry / makeRequest (both revisions).   *)
(*  SpecPrice  the price policies of the three implementations.            *)
(*                                                                         *)
(* Money is counted in thousandths of a euro (12000 is 12.000 EUR), times   *)
(* in milliseconds.                                                        *)
(***************************************************************************)
EXTENDS Integers, Sequences, FiniteSets, TLC

(* ---- bounds of the model ---- *)
MaxFeed == 3
MaxFaults == 1
\* CONFIG.BATCH_SIZE is 5 (part_003) or 10 (server.js); scaled down so that a
\* feed of MaxFeed records spans more than one batch.
BATCH_SIZE == 2
MaxRetriesBound == 9
MaxRawPrice == 12500
MaxStockTenths == 120
MaxPolicyRecords == 3
MaxLogCalls == 2003
MaxErrors == 30
MaxCalls == 3
MaxTime == 3000
TimeStep == 250

(* ---- program constants ---- *)
PRICE_MULTIPLIER == 2
MIN_PRICE_THRESHOLD == 15000
MSY_MIN_PRICE_THRESHOLD == 20000
REQUIRE_IMAGES == FALSE
ReportErrorCap == 20
MSYReportErrorCap == 10

VARIABLES
  impl,        \* which service runs: "Hybrid" (part_003) or "MSY" (server.js)
  feed,        \* the supplier's price list (ordered rows), fixed for a behaviour
  pc,          \* per run: position of the sync() invocation
  results,     \* per run: the results object of fetchProductsMultiSource
  batchAt,     \* per run: loop variable i of processBatch
  rec,         \* per run, per record: position of its processProduct task
  existing,    \* per run, per record: id of the entity the search selected, 0 for null
  sought,      \* per run, per record: what the search returned and the writes
               \* issued for the record (observation)
  stats,       \* this.stats of the shared syncService
  errorSKUs,   \* this.errorSKUs of the shared syncService
  items,       \* the destination catalog: set of [id, sku]
  nextId,      \* next identifier the destination assigns
  outcome,     \* per run: what the caller of sync() received
  overlap,     \* observation: a run was triggered while another one was active
  faults,      \* observation: destination calls answered with a server failure
  srcLog,      \* observation, per run: feed requests and their results, in order
  destCalls,   \* observation, per run: destination calls issued
  took,        \* observation: records that took each branch since resetStats
  retry,       \* state of one withRetry invocation (SpecRetry)
  priceCase,   \* one application of a price policy (SpecPrice)
  stockCase,   \* one normalisation of a stock value (SpecStock)
  policyCase,  \* the policy checks applied to a series of records (SpecPolicy)
  reportCase,  \* one report built from a list of error entries (SpecReport)
  logs,        \* this.logs of one EcwidSyncManager (SpecLog)
  mgr,         \* one EcwidSyncManager.syncProducts invocation
  rateCase,    \* the clock and the rate limiter of one EcwidSyncManager (SpecRate)
  uniqueSku,   \* whether the destination refuses a second product under an SKU it
               \* holds (409); fixed for a behaviour
  msySync,     \* one call of syncMSYtoEcwid (part_002) and its destination
  delayCase,   \* one computation of withRetry's backoff delay (SpecDelay)
  clockCase    \* the clock and the time stamps of one call of sync() (SpecClock)

vars == <<impl, feed, pc, results, batchAt, rec, existing, sought, stats,
          errorSKUs, items, nextId, outcome, overlap, faults, srcLog, destCalls,
          took, retry, priceCase, stockCase, policyCase, reportCase, logs, mgr,
          rateCase, uniqueSku, msySync, delayCase,
              clockCase>>

\* the variables outside the sync service
unitVars == <<retry, priceCase, stockCase, policyCase, reportCase, logs, mgr,
              rateCase, uniqueSku, msySync, delayCase,
              clockCase>>

syncVars == <<impl, feed, pc, results, batchAt, rec, existing, sought,
              stats, errorSKUs, items, nextId, outcome, overlap, faults, srcLog,
              destCalls, took>>

\* the first and the second trigger (POST /sync or the cron job) to arrive
Runs == {1, 2}

Min(a, b) == IF a < b THEN a ELSE b

Max(a, b) == IF a < b THEN b ELSE a

(* ---- feed rows ---- *)
\* A row as the feed delivers it; price is the value parsePrice yields for the
\* price column (0 for an empty or unparsable column).
Catalog ==
  { [article_num |-> "a", name |-> "n", price |-> 12000, images |-> 1],
    [article_num |-> "b", name |-> "n", price |-> 9000,  images |-> 0],
    [article_num |-> "b", name |-> "n", price |-> 7000,  images |-> 1],
    [article_num |-> "",  name |-> "n", price |-> 12000, images |-> 1] }

RECURSIVE SeqsUpTo(_, _)
SeqsUpTo(S, n) ==
  IF n = 0 THEN { <<>> }
  ELSE LET shorter == SeqsUpTo(S, n - 1)
       IN shorter \cup { Append(s, x) : s \in { t \in shorter : Len(t) = n - 1 }, x \in S }

Feeds == SeqsUpTo(Catalog, MaxFeed)

RECURSIVE SelectRows(_, _)
SelectRows(s, keep) ==
  IF s = <<>> THEN <<>>
  ELSE IF keep[Head(s)] THEN <<Head(s)>> \o SelectRows(Tail(s), keep)
       ELSE SelectRows(Tail(s), keep)

\* fetchCSVProducts: rows kept by the validProducts filter
validProducts(rows) ==
  SelectRows(rows, [p \in Catalog |->
     p.article_num # "" /\ p.price # 0 /\ p.name # ""])

(* ---- price arithmetic ---- *)
\* Math.round(x * 100) / 100 on a non-negative amount in thousandths
RoundCents(m) == ((m + 5) \div 10) * 10

\* MSYEcwidSync.calculatePrice: 0 stands for the `false` it returns
calculatePrice(originalPrice) ==
  IF originalPrice <= 0 THEN 0 ELSE RoundCents(originalPrice * 2)

\* HybridMSYEcwidSync.normalizeProduct under a CONFIG.REQUIRE_IMAGES setting:
\* the branch taken and the price computed
normalizeProductChecks(product, requireImages) ==
  IF product.article_num = "" \/ product.name = "" \/ product.price = 0
  THEN [reason |-> "invalidData", price |-> 0]
  ELSE IF product.price <= 0
  THEN [reason |-> "invalidData", price |-> 0]
  ELSE LET finalPrice == product.price * PRICE_MULTIPLIER
       IN IF finalPrice < MIN_PRICE_THRESHOLD
          THEN [reason |-> "lowPrice", price |-> 0]
          ELSE IF requireImages /\ product.images = 0
          THEN [reason |-> "noImages", price |-> 0]
          ELSE [reason |-> "ok", price |-> RoundCents(finalPrice)]

\* HybridMSYEcwidSync.normalizeProduct as configured
normalizeProduct(product) == normalizeProductChecks(product, REQUIRE_IMAGES)

\* MSYEcwidSync.validateProduct under a CONFIG.REQUIRE_IMAGES setting: the
\* branch taken and the price computed
validateProductChecks(product, requireImages) ==
  IF requireImages /\ product.images = 0
  THEN [reason |-> "noImages", price |-> 0]
  ELSE LET finalPrice == calculatePrice(product.price)
       IN IF finalPrice = 0
          THEN [reason |-> "invalidData", price |-> 0]
          ELSE IF finalPrice < MSY_MIN_PRICE_THRESHOLD
          THEN [reason |-> "lowPrice", price |-> finalPrice]
          ELSE [reason |-> "ok", price |-> finalPrice]

\* MSYEcwidSync.validateProduct as configured
validateProduct(product) == validateProductChecks(product, REQUIRE_IMAGES)

\* the policy check processProduct applies first
Validate(product) ==
  IF impl = "Hybrid" THEN normalizeProduct(product) ELSE validateProduct(product)

(* ---- statistics ---- *)
\* resetStats: the fresh this.stats object
resetStats ==
  [total |-> 0, processed |-> 0, created |-> 0, updated |-> 0, ignored |-> 0,
   errors |-> 0, noImages |-> 0, lowPrice |-> 0, invalidData |-> 0,
   apiError |-> 0, source |-> "none"]

\* a record whose search has not settled
NotSought == [searched |-> "no", ids |-> {}, writes |-> <<>>]

\* no record has been through processProduct since resetStats
NoneTook == [ignored |-> 0, processed |-> 0, errors |-> 0]

NoRetry == [ver |-> "none"]

NoPrice == [who |-> "none"]

NoStock == [who |-> "none"]

NoPolicy == [who |-> "none"]

NoReport == [who |-> "none"]

NoLogs == [ver |-> "none"]

NoMgr == [ver |-> "none"]

NoRate == [pc |-> "none"]
NoMsySync == [pc |-> "none"]
NoDelay == [pc |-> "none"]
NoClock == [pc |-> "none"]

\* the parts of the program outside `used` have not been entered
IdleUnits(used) ==
  /\ IF "retry" \in used THEN TRUE ELSE retry = NoRetry
  /\ IF "priceCase" \in used THEN TRUE ELSE priceCase = NoPrice
  /\ IF "stockCase" \in used THEN TRUE ELSE stockCase = NoStock
  /\ IF "policyCase" \in used THEN TRUE ELSE policyCase = NoPolicy
  /\ IF "reportCase" \in used THEN TRUE ELSE reportCase = NoReport
  /\ IF "logs" \in used THEN TRUE ELSE logs = NoLogs
  /\ IF "mgr" \in used THEN TRUE ELSE mgr = NoMgr
  /\ IF "rateCase" \in used THEN TRUE ELSE rateCase = NoRate
  /\ IF "uniqueSku" \in used THEN TRUE ELSE uniqueSku = TRUE
  /\ IF "msySync" \in used THEN TRUE ELSE msySync = NoMsySync
  /\ IF "delayCase" \in used THEN TRUE ELSE delayCase = NoDelay
  /\ IF "clockCase" \in used THEN TRUE ELSE clockCase = NoClock

\* a step of one part leaves the sync service and the other parts alone
UnitFrame(used) ==
  /\ UNCHANGED syncVars
  /\ IF "retry" \in used THEN TRUE ELSE UNCHANGED retry
  /\ IF "priceCase" \in used THEN TRUE ELSE UNCHANGED priceCase
  /\ IF "stockCase" \in used THEN TRUE ELSE UNCHANGED stockCase
  /\ IF "policyCase" \in used THEN TRUE ELSE UNCHANGED policyCase
  /\ IF "reportCase" \in used THEN TRUE ELSE UNCHANGED reportCase
  /\ IF "logs" \in used THEN TRUE ELSE UNCHANGED logs
  /\ IF "mgr" \in used THEN TRUE ELSE UNCHANGED mgr
  /\ IF "rateCase" \in used THEN TRUE ELSE UNCHANGED rateCase
  /\ UNCHANGED uniqueSku
  /\ IF "msySync" \in used THEN TRUE ELSE UNCHANGED msySync
  /\ IF "delayCase" \in used THEN TRUE ELSE UNCHANGED delayCase
  /\ IF "clockCase" \in used THEN TRUE ELSE UNCHANGED clockCase

Bump(st, field) == [st EXCEPT ![field] = @ + 1]

Active(r) == pc[r] \in {"csv", "json", "msy", "batch", "pause"}

\* seeded fault for C21: Promise.all resolves with the first task of the batch
BatchIdx_FirstOnly(i, n) == {i + 1}

\* records of the batch that starts at index i (0-based) of a list of n
BatchIdx(i, n) == (i + 1)..Min(i + BATCH_SIZE, n)

\* products.slice(0, cap) of the error list
Slice(s, cap) == SubSeq(s, 1, Min(cap, Len(s)))

\* generateReport: errorSKUs: this.errorSKUs.slice(0, 20), 10 in server.js
reportErrorSKUs(who, errs) ==
  Slice(errs, IF who = "Hybrid" THEN ReportErrorCap ELSE MSYReportErrorCap)

\* generateReport: the report object handed to the caller
generateReport(st, errs) ==
  [kind |-> "report", source |-> st.source, stats |-> st,
   errorSKUs |-> reportErrorSKUs(impl, errs)]

NoOutcome == [kind |-> "none"]

\* the sku a record is searched and written under (MSY rows carry it as
\* product.sku; a missing one is serialised as no sku at all)
SkuOf(product) == product.article_num

\* processProduct up to its first await, for the records k..hi of the batch, in
\* order: validation, the reason counter and ignored++ of a rejected record,
\* the search request of an accepted one
RECURSIVE processProductStart(_, _, _, _, _)
processProductStart(prods, k, hi, st, recs) ==
  IF k > hi THEN [stats |-> st, rec |-> recs]
  ELSE LET v == Validate(prods[k])
       IN IF v.reason = "ok"
          THEN processProductStart(prods, k + 1, hi, st, [recs EXCEPT ![k] = "search"])
          ELSE processProductStart(prods, k + 1, hi,
                                   Bump(Bump(st, v.reason), "ignored"),
                                   [recs EXCEPT ![k] = "done"])

\* number of search requests a batch start issued
Searching(recs, i, n) == Cardinality({k \in BatchIdx(i, n) : recs[k] = "search"})

\* number of records a batch start rejected
Rejected(recs, i, n) == Cardinality({k \in BatchIdx(i, n) : recs[k] = "done"})

\* processBatch after the tasks of the batch at i have run as far as they can:
\* either some task still awaits the destination, or Promise.all resolves and
\* the loop pauses before the next batch or returns to sync(), which reports
AfterBatch(r, i, st, errs, recs) ==
  LET n == Len(recs)
  IN /\ rec' = [rec EXCEPT ![r] = recs]
     /\ batchAt' = [batchAt EXCEPT ![r] = i]
     /\ stats' = st
     /\ errorSKUs' = errs
     /\ IF \E k \in BatchIdx(i, n) : recs[k] # "done"
        THEN pc' = [pc EXCEPT ![r] = "batch"] /\ outcome' = outcome
        ELSE IF i + BATCH_SIZE < n
        THEN pc' = [pc EXCEPT ![r] = "pause"] /\ outcome' = outcome
        ELSE /\ pc' = [pc EXCEPT ![r] = "done"]
             /\ outcome' = [outcome EXCEPT ![r] = generateReport(st, errs)]

\* processBatch: start the batch at index i
processBatch(r, prods, i, st, errs, recs) ==
  LET n == Len(prods)
      started == processProductStart(prods, i + 1, Min(i + BATCH_SIZE, n), st, recs)
  IN /\ AfterBatch(r, i, started.stats, errs, started.rec)
     /\ destCalls' = [destCalls EXCEPT ![r] = @ + Searching(started.rec, i, n)]
     /\ took' = [took EXCEPT !.ignored = @ + Rejected(started.rec, i, n)]

\* fetchProductsMultiSource: const results = { source: null, products: [], errors: [] }
NoResults == [source |-> "none", products |-> <<>>, errors |-> <<>>]

\* seeded fault for C10: the JSON source is tried whatever the CSV attempt gave
csvOutcome_AlwaysFallback(kind) == "fallback"

\* fetchProductsMultiSource after the CSV attempt: the try block returns the
\* CSV result whenever fetchCSVProducts did not throw, the catch falls back
csvOutcome(kind) == IF kind = "error" THEN "fallback" ELSE "return"

\* the source names fetchProductsMultiSource records
primarySource == "CSV_PRIMARY"

\* seeded fault for C8: the fallback result is labelled as the primary source
fallbackSource_Primary == "CSV_PRIMARY"

fallbackSource == "JSON_FALLBACK"

\* the entry the catch of a failed source pushes to results.errors
sourceError(tag, kind) ==
  IF tag = "CSV" THEN "CSV: CSV error: 500 Internal Server Error"
  ELSE IF kind = "error" THEN "JSON: JSON error: 500 Internal Server Error"
  ELSE "JSON: JSON structure invalid - price_list not found"

\* sync() once the feed is acquired: total and source are recorded, an empty
\* list is reported at once, anything else goes to processBatch
Acquired(r, prods, source) ==
  LET st == [stats EXCEPT !.total = Len(prods), !.source = source]
  IN /\ results' = [results EXCEPT ![r].products = prods, ![r].source = source]
     /\ existing' = [existing EXCEPT ![r] = [k \in 1..Len(prods) |-> 0]]
     /\ sought' = [sought EXCEPT ![r] = [k \in 1..Len(prods) |-> NotSought]]
     /\ IF Len(prods) = 0
        THEN /\ pc' = [pc EXCEPT ![r] = "done"]
             /\ outcome' = [outcome EXCEPT ![r] = generateReport(st, errorSKUs)]
             /\ stats' = st
             /\ rec' = [rec EXCEPT ![r] = <<>>]
             /\ UNCHANGED <<batchAt, errorSKUs, destCalls, took>>
        ELSE processBatch(r, prods, 0, st, errorSKUs, [k \in 1..Len(prods) |-> "wait"])

\* sync() when the feed cannot be acquired: the error goes to the caller
Unavailable(r, errs) ==
  /\ results' = [results EXCEPT ![r].errors = errs]
  /\ pc' = [pc EXCEPT ![r] = "failed"]
  /\ outcome' = [outcome EXCEPT ![r] = [kind |-> "error", message |-> errs]]
  /\ UNCHANGED <<batchAt, rec, existing, sought, stats, errorSKUs, destCalls, took>>

(* ---- the actions of the sync service ---- *)

\* POST /sync or the cron job: sync() resets the statistics and requests the
\* first source
Trigger(r) ==
  /\ pc[r] = "idle"
  /\ \A o \in Runs : o < r => pc[o] # "idle"
  /\ stats' = resetStats
  /\ errorSKUs' = <<>>
  /\ took' = NoneTook
  /\ pc' = [pc EXCEPT ![r] = IF impl = "Hybrid" THEN "csv" ELSE "msy"]
  /\ overlap' = (overlap \/ \E o \in Runs \ {r} : Active(o))
  /\ srcLog' = [srcLog EXCEPT ![r] = <<IF impl = "Hybrid" THEN "csv?" ELSE "msy?">>]
  /\ UNCHANGED <<impl, feed, results, batchAt, rec, existing, sought,
                 items, nextId, outcome, faults, destCalls, unitVars>>

\* a trigger that arrives while no run is active
TriggerWhenIdle(r) ==
  /\ \A o \in Runs : ~Active(o)
  /\ Trigger(r)

\* fetchCSVProducts settles: an HTTP error, a body with no valid row, or the
\* rows; fetchProductsMultiSource then returns or requests the JSON source
CsvResponse(r, kind) ==
  /\ pc[r] = "csv"
  /\ IF csvOutcome(kind) = "fallback"
     THEN /\ results' = [results EXCEPT ![r].errors = Append(@, sourceError("CSV", kind))]
          /\ pc' = [pc EXCEPT ![r] = "json"]
          /\ srcLog' = [srcLog EXCEPT ![r] = @ \o <<"csv:" \o kind, "json?">>]
          /\ UNCHANGED <<batchAt, rec, existing, sought, stats, errorSKUs, outcome, destCalls,
                         took>>
     ELSE /\ Acquired(r, IF kind = "rows" THEN validProducts(feed) ELSE <<>>, primarySource)
          /\ srcLog' = [srcLog EXCEPT ![r] = Append(@, "csv:" \o kind)]
  /\ UNCHANGED <<impl, feed, items, nextId, overlap, faults, unitVars>>

\* fetchJSONProducts settles: an HTTP error, a document without price_list, or
\* the price_list array
JsonResponse(r, kind) ==
  /\ pc[r] = "json"
  /\ IF kind \in {"error", "invalid"}
     THEN Unavailable(r, Append(results[r].errors, sourceError("JSON", kind)))
     ELSE Acquired(r, feed, fallbackSource)
  /\ srcLog' = [srcLog EXCEPT ![r] = Append(@, "json:" \o kind)]
  /\ UNCHANGED <<impl, feed, items, nextId, overlap, faults, unitVars>>

\* MSYEcwidSync.fetchMSYProducts settles: an HTTP error or the product array
MsyResponse(r, kind) ==
  /\ pc[r] = "msy"
  /\ IF kind = "error"
     THEN Unavailable(r, <<"MSY API error: 500">>)
     ELSE Acquired(r, feed, "none")
  /\ srcLog' = [srcLog EXCEPT ![r] = Append(@, "msy:" \o kind)]
  /\ UNCHANGED <<impl, feed, items, nextId, overlap, faults, unitVars>>

(* ---- the destination catalog ---- *)

\* GET /products?sku=...: the entities the destination holds under the sku
Matches(sku) == IF sku = "" THEN {} ELSE {e \in items : e.sku = sku}

\* seeded fault for C4: the search never finds the existing entity
searchEcwidProduct_NeverFinds(sku, answered) == 0

\* searchEcwidProduct: data.items[0] of an answered search, null (0) when the
\* list is empty and, through the catch, when the call failed
searchEcwidProduct(sku, answered) ==
  IF answered /\ Matches(sku) # {}
  THEN CHOOSE id \in {e.id : e \in Matches(sku)} :
         \A other \in {e.id : e \in Matches(sku)} : id <= other
  ELSE 0

\* seeded fault for C28: every write is a create
writeFor_AlwaysCreates(ex) == [method |-> "POST", id |-> 0]

\* upsertEcwidProduct: PUT /products/{existingProduct.id} when the search
\* selected an entity, POST /products otherwise
writeFor(ex) ==
  IF ex # 0 THEN [method |-> "PUT", id |-> ex] ELSE [method |-> "POST", id |-> 0]

\* counters searchEcwidProduct touches when the call failed (part_003:317)
searchFailed(st) == IF impl = "Hybrid" THEN Bump(st, "apiError") ELSE st

\* upsertEcwidProduct before its request: server.js counts the write here
upsertStart(st, ex) ==
  IF impl = "MSY" THEN Bump(st, IF ex # 0 THEN "updated" ELSE "created") ELSE st

\* upsertEcwidProduct after a 2xx answer, then processProduct's processed++
upsertSucceeded(st, ex) ==
  Bump(IF impl = "Hybrid" THEN Bump(st, IF ex # 0 THEN "updated" ELSE "created") ELSE st,
       "processed")

\* the catch of upsertEcwidProduct, which rethrows, then the catch of
\* processProduct
upsertFailed(st) ==
  Bump(IF impl = "Hybrid" THEN Bump(Bump(st, "errors"), "apiError") ELSE Bump(st, "errors"),
       "errors")

\* the entries the two catch blocks push to errorSKUs
upsertFailedEntries(sku, ex) ==
  IF impl = "Hybrid"
  THEN << [sku |-> sku, step |-> IF ex # 0 THEN "update" ELSE "create"] >>
  ELSE << [sku |-> sku, step |-> IF ex # 0 THEN "upsert" ELSE "create"],
          [sku |-> sku, step |-> "process"] >>

\* the search of record k of run r settles; processProduct goes on to
\* upsertEcwidProduct, which issues the PUT or the POST
SearchResponse(r, k, answered) ==
  /\ pc[r] = "batch"
  /\ k \in DOMAIN rec[r]
  /\ rec[r][k] = "search"
  /\ answered \/ faults < MaxFaults
  /\ LET ex == searchEcwidProduct(SkuOf(results[r].products[k]), answered)
         st == IF answered THEN stats ELSE searchFailed(stats)
     IN /\ existing' = [existing EXCEPT ![r][k] = ex]
        /\ sought' = [sought EXCEPT ![r][k] =
                       [searched |-> IF answered THEN "answered" ELSE "failed",
                        ids |-> IF answered
                                THEN {e.id : e \in Matches(SkuOf(results[r].products[k]))}
                                ELSE {},
                        writes |-> <<writeFor(ex)>>]]
        /\ stats' = upsertStart(st, ex)
  /\ rec' = [rec EXCEPT ![r][k] = "upsert"]
  /\ faults' = IF answered THEN faults ELSE faults + 1
  /\ destCalls' = [destCalls EXCEPT ![r] = @ + 1]
  /\ UNCHANGED <<impl, feed, pc, results, batchAt, errorSKUs, items,
                 nextId, outcome, overlap, srcLog, took, unitVars>>

\* the PUT or POST of record k of run r settles: the destination stores the
\* product and answers 2xx, refuses a POST whose sku it already holds (409), or
\* fails (5xx); the task ends, and with the last task of the batch the batch
UpsertResponse(r, k, answered) ==
  /\ pc[r] = "batch"
  /\ k \in DOMAIN rec[r]
  /\ rec[r][k] = "upsert"
  /\ LET sku == SkuOf(results[r].products[k])
         ex == sought[r][k].writes[1].id
         conflict == uniqueSku /\ ex = 0 /\ Matches(sku) # {}
         ok == answered /\ ~conflict
         st == IF ok THEN upsertSucceeded(stats, ex) ELSE upsertFailed(stats)
         errs == IF ok THEN errorSKUs ELSE errorSKUs \o upsertFailedEntries(sku, ex)
     IN /\ answered \/ (faults < MaxFaults /\ ~conflict)
        /\ faults' = IF answered THEN faults ELSE faults + 1
        /\ IF ok /\ ex = 0
           THEN /\ items' = items \cup {[id |-> nextId, sku |-> sku]}
                /\ nextId' = nextId + 1
           ELSE UNCHANGED <<items, nextId>>
        /\ AfterBatch(r, batchAt[r], st, errs, [rec[r] EXCEPT ![k] = "done"])
        /\ took' = Bump(took, IF ok THEN "processed" ELSE "errors")
  /\ UNCHANGED <<impl, feed, results, existing, sought, overlap, srcLog,
                 destCalls, unitVars>>

\* the setTimeout(BATCH_DELAY) between two batches elapses
BatchDelayElapsed(r) ==
  /\ pc[r] = "pause"
  /\ processBatch(r, results[r].products, batchAt[r] + BATCH_SIZE, stats, errorSKUs, rec[r])
  /\ UNCHANGED <<impl, feed, results, existing, sought, items, nextId,
                 overlap, faults, srcLog, unitVars>>

\* the destination before the first run: empty, or already holding sku "a"
InitialItems == { {}, {[id |-> 1, sku |-> "a"]} }

InitSync ==
  /\ impl \in {"Hybrid", "MSY"}
  /\ feed \in Feeds
  /\ pc = [r \in Runs |-> "idle"]
  /\ results = [r \in Runs |-> NoResults]
  /\ batchAt = [r \in Runs |-> 0]
  /\ rec = [r \in Runs |-> <<>>]
  /\ existing = [r \in Runs |-> <<>>]
  /\ sought = [r \in Runs |-> <<>>]
  /\ stats = resetStats
  /\ errorSKUs = <<>>
  /\ items \in InitialItems
  /\ nextId = 2
  /\ outcome = [r \in Runs |-> NoOutcome]
  /\ overlap = FALSE
  /\ faults = 0
  /\ srcLog = [r \in Runs |-> <<>>]
  /\ destCalls = [r \in Runs |-> 0]
  /\ took = NoneTook

\* the sync service of a deployment whose destination refuses duplicate SKUs
Init == InitSync /\ IdleUnits({})

\* the runs of a behaviour follow one another (the cron job fires once a day)
Next ==
  \/ \E r \in Runs : TriggerWhenIdle(r)
  \/ \E r \in Runs, kind \in {"error", "norows", "rows"} : CsvResponse(r, kind)
  \/ \E r \in Runs, kind \in {"error", "invalid", "rows"} : JsonResponse(r, kind)
  \/ \E r \in Runs, kind \in {"error", "rows"} : MsyResponse(r, kind)
  \/ \E r \in Runs, k \in 1..MaxFeed, answered \in BOOLEAN : SearchResponse(r, k, answered)
  \/ \E r \in Runs, k \in 1..MaxFeed, answered \in BOOLEAN : UpsertResponse(r, k, answered)
  \/ \E r \in Runs : BatchDelayElapsed(r)

Spec == Init /\ [][Next]_vars

\* a trigger may arrive at any time: POST /sync while a run is in progress
NextOverlap ==
  \/ \E r \in Runs : Trigger(r)
  \/ \E r \in Runs, kind \in {"error", "norows", "rows"} : CsvResponse(r, kind)
  \/ \E r \in Runs, kind \in {"error", "invalid", "rows"} : JsonResponse(r, kind)
  \/ \E r \in Runs, kind \in {"error", "rows"} : MsyResponse(r, kind)
  \/ \E r \in Runs, k \in 1..MaxFeed, answered \in BOOLEAN : SearchResponse(r, k, answered)
  \/ \E r \in Runs, k \in 1..MaxFeed, answered \in BOOLEAN : UpsertResponse(r, k, answered)
  \/ \E r \in Runs : BatchDelayElapsed(r)

SpecOverlap == Init /\ [][NextOverlap]_vars

(* ======================= properties of the sync service ================= *)

Reported(r) == outcome[r].kind = "report"

\* records of a list that pass the policy checks
Accepted(prods) == Cardinality({k \in DOMAIN prods : Validate(prods[k]).reason = "ok"})

\* C1: at most one run is fetching or processing at any time (a trigger that
\* arrives during a run is rejected and starts no second feed fetch).
C1_AtMostOneRunActive == Cardinality({r \in Runs : Active(r)}) <= 1

\* C2: the report of every completed run has
\* total = processed + ignored + errors.
C2_TotalPartition ==
  \A r \in Runs : Reported(r) =>
    outcome[r].stats.total =
      outcome[r].stats.processed + outcome[r].stats.ignored + outcome[r].stats.errors

\* C3: the report of every completed run has processed = created + updated.
C3_ProcessedIsCreatedPlusUpdated ==
  \A r \in Runs : Reported(r) =>
    outcome[r].stats.processed = outcome[r].stats.created + outcome[r].stats.updated

\* both runs of the Hybrid service completed on the same acquired records
TwoRunsSameFeed ==
  /\ impl = "Hybrid"
  /\ Reported(1) /\ Reported(2)
  /\ results[1].products = results[2].products

\* the second run created nothing and updated every accepted record, and the
\* destination holds at most one entity per sku
SecondRunOnlyUpdates ==
  /\ outcome[2].stats.created = 0
  /\ outcome[2].stats.updated = Accepted(results[2].products)
  /\ \A e1, e2 \in items : e1.sku = e2.sku => e1.id = e2.id

FellBack(r) == srcLog[r] = <<"csv?", "csv:error", "json?", "json:rows">>

BothFailed(r) ==
  \E kind \in {"error", "invalid"} : srcLog[r] = <<"csv?", "csv:error", "json?", "json:" \o kind>>

\* C8: a failed CSV source followed by a valid JSON document yields the JSON
\* records with source JSON_FALLBACK; when both sources fail the caller gets one
\* error listing both source errors and no record was processed.
C8_FallbackCorrect ==
  \A r \in Runs :
    /\ FellBack(r) => /\ results[r].products = feed
                      /\ results[r].source = "JSON_FALLBACK"
    /\ BothFailed(r) => /\ outcome[r].kind = "error"
                        /\ Len(outcome[r].message) = 2
                        /\ outcome[r].message[1] = sourceError("CSV", "error")
                        /\ \E kind \in {"error", "invalid"} :
                             outcome[r].message[2] = sourceError("JSON", kind)
                        /\ destCalls[r] = 0
                        /\ rec[r] = <<>>
                        /\ pc[r] = "failed"

C8_Witness ==
  /\ FellBack(1) /\ Len(feed) >= 2 /\ Reported(1)
  /\ BothFailed(2)

\* C9: the source reported as used is one that yielded a non-empty record
\* collection (a source that parses to zero valid rows counts as failed).
C9_UsedSourceNonEmpty ==
  \A r \in Runs :
    results[r].source \in {"CSV_PRIMARY", "JSON_FALLBACK"} => Len(results[r].products) > 0

\* C10: the JSON source is requested only right after the CSV attempt of the
\* same run failed, never in a run whose CSV attempt did not fail.
C10_JsonOnlyAfterCsvFailed ==
  \A r \in Runs : \A i \in DOMAIN srcLog[r] :
    srcLog[r][i] = "json?" => (i > 1 /\ srcLog[r][i - 1] = "csv:error")

C10_Witness ==
  /\ "json?" \in {srcLog[1][i] : i \in DOMAIN srcLog[1]}
  /\ srcLog[2] = <<"csv?", "csv:rows">>
  /\ Len(results[2].products) > 0

(* =================== EcwidSyncManager.withRetry ========================= *)

\* config.retryDelay and the cap of the backoff, per revision of the manager
RetryDelayV2 == 1500
RetryDelayV1 == 1000
MaxDelayV2 == 60000
MaxDelayV1 == 30000
JitterRange == 1000

retryDelay(ver) == IF ver = "v2" THEN RetryDelayV2 ELSE RetryDelayV1

maxDelay(ver) == IF ver = "v2" THEN MaxDelayV2 ELSE MaxDelayV1

\* what the destination (or the network) answers to one attempt
Responses ==
  { [status |-> 200, body |-> "json"], [status |-> 200, body |-> "html"],
    [status |-> 404, body |-> "json"], [status |-> 401, body |-> "json"],
    [status |-> 403, body |-> "json"], [status |-> 404, body |-> "html"],
    [status |-> 503, body |-> "json"], [status |-> 0,   body |-> "timeout"] }

\* values of Math.random() * 1000 the model draws
Jitters(ver) == IF ver = "v2" THEN {0, JitterRange \div 2, JitterRange - 1} ELSE {0}

RECURSIVE Pow2(_)
Pow2(n) == IF n = 0 THEN 1 ELSE 2 * Pow2(n - 1)

\* makeRequest: whether it returns, and the status of error.response of the
\* error it throws (0 when the error carries no response)
makeRequest(ver, resp) ==
  IF resp.body = "timeout" THEN [ok |-> FALSE, responseStatus |-> 0]
  ELSE IF resp.status >= 500 THEN [ok |-> FALSE, responseStatus |-> resp.status]
  ELSE IF resp.body = "html" THEN [ok |-> FALSE, responseStatus |-> 0]
  ELSE IF resp.status >= 400
  THEN [ok |-> FALSE, responseStatus |-> IF ver = "v2" THEN resp.status ELSE 0]
  ELSE [ok |-> TRUE, responseStatus |-> 0]

\* withRetry: the errors it rethrows at once
isDefinitive(err) == err.responseStatus \in {404, 401, 403}

\* seeded fault for C7: the delay does not grow with the attempt number
backoffDelay_NoDoubling(ver, attempt, jitter) ==
  Min(retryDelay(ver) + jitter, maxDelay(ver))

\* seeded fault for C34: the delay is not capped
delayFor_Uncapped(ver, rd, attempt, jitter) == rd * Pow2(attempt - 1) + jitter

\* Math.min(config.retryDelay * 2^(attempt - 1) [+ Math.random() * 1000], cap)
delayFor(ver, rd, attempt, jitter) ==
  Min(rd * Pow2(attempt - 1) + jitter, maxDelay(ver))

\* withRetry: the delay computed after failed attempt number `attempt`
backoffDelay(ver, attempt, jitter) ==
  delayFor(ver, retryDelay(ver), attempt, jitter)

\* seeded fault for C33: the loop goes round whatever the attempt number
sleepsAgain_Always(attempt, maxRetries) == TRUE

\* withRetry: whether the loop sleeps and goes round again after a failure
sleepsAgain(attempt, maxRetries) == attempt < maxRetries

IdleSync ==
  /\ impl = "Hybrid"
  /\ feed = <<>>
  /\ pc = [r \in Runs |-> "idle"]
  /\ results = [r \in Runs |-> NoResults]
  /\ batchAt = [r \in Runs |-> 0]
  /\ rec = [r \in Runs |-> <<>>]
  /\ existing = [r \in Runs |-> <<>>]
  /\ sought = [r \in Runs |-> <<>>]
  /\ stats = resetStats
  /\ errorSKUs = <<>>
  /\ items = {}
  /\ nextId = 1
  /\ outcome = [r \in Runs |-> NoOutcome]
  /\ overlap = FALSE
  /\ faults = 0
  /\ srcLog = [r \in Runs |-> <<>>]
  /\ destCalls = [r \in Runs |-> 0]
  /\ took = NoneTook

\* withRetry(operation) is entered: attempt = 1 and the operation is invoked
\* no answer yet: lastError before the first catch, and the value or error of
\* a withRetry that has not settled
NoAnswer == [status |-> 0, body |-> "none"]

InitRetry ==
  /\ IdleSync
  /\ IdleUnits({"retry"})
  /\ \E ver \in {"v1", "v2"}, maxRetries \in 1..MaxRetriesBound :
       retry = [ver |-> ver, via |-> "withRetry", maxRetries |-> maxRetries,
                pc |-> "call", attempt |-> 1, attempts |-> 1, sleeps |-> 0,
                prevDelay |-> 0, lastDelay |-> 0,
                only503 |-> TRUE, definitiveAt |-> 0, last |-> "none",
                okAt |-> 0, lastError |-> NoAnswer, settled |-> NoAnswer]

\* the operation of the current attempt settles with answer resp
OperationSettles(resp, jitter) ==
  /\ retry.ver # "none"
  /\ retry.via = "withRetry"
  /\ retry.pc = "call"
  /\ LET res == makeRequest(retry.ver, resp)
         seen == [retry EXCEPT
                    !.last = resp.body,
                    !.only503 = @ /\ resp.status = 503,
                    !.definitiveAt = IF @ = 0 /\ resp.status \in {404, 401, 403}
                                        /\ resp.body = "json"
                                     THEN retry.attempt ELSE @]
         caught == [seen EXCEPT !.lastError = resp]
     IN IF res.ok
        THEN retry' = [seen EXCEPT !.pc = "returned", !.okAt = retry.attempt,
                                   !.settled = resp]
        ELSE IF isDefinitive(res)
        THEN retry' = [caught EXCEPT !.pc = "threw", !.settled = resp]
        ELSE IF sleepsAgain(retry.attempt, retry.maxRetries)
        THEN retry' = [caught EXCEPT !.pc = "sleep",
                                     !.sleeps = @ + 1,
                                     !.prevDelay = retry.lastDelay,
                                     !.lastDelay = backoffDelay(retry.ver, retry.attempt, jitter)]
        ELSE retry' = [caught EXCEPT !.pc = "threw", !.settled = caught.lastError]
  /\ UnitFrame({"retry"})

\* the backoff sleep elapses: the loop goes round and invokes the operation
SleepElapsed ==
  /\ retry.ver # "none"
  /\ retry.pc = "sleep"
  /\ retry' = [retry EXCEPT !.pc = "call", !.attempt = @ + 1, !.attempts = @ + 1]
  /\ UnitFrame({"retry"})

NextRetry ==
  \/ \E resp \in Responses, jitter \in Jitters(retry.ver) : OperationSettles(resp, jitter)
  \/ SleepElapsed

SpecRetry == InitRetry /\ [][NextRetry]_vars

\* C6: once an attempt was answered 404, 401 or 403, withRetry has thrown and
\* made no further attempt (answered so on the first attempt: exactly one).
C6_DefinitiveNotRetried ==
  (retry.ver # "none" /\ retry.definitiveAt # 0) =>
     (retry.pc = "threw" /\ retry.attempts = retry.definitiveAt)

\* C7 as stated: the delays slept between consecutive attempts are strictly
\* increasing.
C7_DelaysStrictlyIncreasing ==
  (retry.ver # "none" /\ retry.only503 /\ retry.sleeps >= 2) =>
     retry.prevDelay < retry.lastDelay

\* C7 amended: a call that keeps failing with 503 is attempted exactly
\* maxRetries times; each delay slept is greater than the one before it, or both
\* equal the fixed maximum delay.
C7_AttemptsAndDelays ==
  retry.ver # "none" =>
    /\ (retry.only503 /\ retry.pc = "threw") => retry.attempts = retry.maxRetries
    /\ retry.only503 => retry.attempts <= retry.maxRetries
    /\ retry.sleeps >= 2 =>
         \/ retry.prevDelay < retry.lastDelay
         \/ (retry.prevDelay = maxDelay(retry.ver) /\ retry.lastDelay = maxDelay(retry.ver))

C7_Witness ==
  /\ retry.ver = "v2" /\ retry.only503 /\ retry.pc = "threw"
  /\ retry.maxRetries = 7 /\ retry.attempts = 7 /\ retry.sleeps = 6
  /\ retry.prevDelay < retry.lastDelay /\ retry.lastDelay < MaxDelayV2

(* =========================== price policy ================================ *)

\* EcwidSyncManager config defaults
DefaultMinPrice == 40000
priceMultiplier == 2

\* minPrice values the POST /api/sync options put into the manager's config
ManagerMinPrices == {MSY_MIN_PRICE_THRESHOLD, DefaultMinPrice}

\* EcwidSyncManager.validateAndFilterProduct: the branch taken and newPrice
validateAndFilterProduct(product, minPrice) ==
  LET originalPrice == product.price
  IN IF originalPrice < minPrice
     THEN [reason |-> "lowPrice", price |-> 0]
     ELSE [reason |-> "ok", price |-> originalPrice * priceMultiplier]

\* the minimum price and the multiplier each implementation works with
PriceConfigs ==
  { [who |-> "Hybrid", minPrice |-> MIN_PRICE_THRESHOLD, multiplier |-> PRICE_MULTIPLIER],
    [who |-> "MSY", minPrice |-> MSY_MIN_PRICE_THRESHOLD, multiplier |-> 2] }
  \cup { [who |-> "Manager", minPrice |-> m, multiplier |-> priceMultiplier] :
           m \in ManagerMinPrices }

\* one record with a positive-or-zero raw price reaches one implementation
InitPrice ==
  /\ IdleSync
  /\ IdleUnits({"priceCase"})
  /\ \E cfg \in PriceConfigs, rawPrice \in 0..MaxRawPrice :
       priceCase = [who |-> cfg.who, minPrice |-> cfg.minPrice,
                    multiplier |-> cfg.multiplier, rawPrice |-> rawPrice,
                    pc |-> "input", reason |-> "none", price |-> 0]

\* the implementation applies its price policy to the record
ApplyPricePolicy ==
  /\ priceCase.who # "none"
  /\ priceCase.pc = "input"
  /\ LET product == [article_num |-> "a", name |-> "n",
                     price |-> priceCase.rawPrice, images |-> 1]
         res == CASE priceCase.who = "Hybrid" -> normalizeProduct(product)
                  [] priceCase.who = "MSY" -> validateProduct(product)
                  [] OTHER -> validateAndFilterProduct(product, priceCase.minPrice)
     IN priceCase' = [priceCase EXCEPT !.pc = "done", !.reason = res.reason,
                                       !.price = res.price]
  /\ UnitFrame({"priceCase"})

NextPrice == ApplyPricePolicy

SpecPrice == InitPrice /\ [][NextPrice]_vars

\* C5: for every record with rawPrice > 0 the computed price is
\* round(rawPrice * priceMultiplier, 2), and the record is rejected as
\* price-too-low exactly when that computed price is below the minimum.
C5_PricePolicy ==
  (priceCase.who # "none" /\ priceCase.pc = "done" /\ priceCase.rawPrice > 0) =>
     LET computed == RoundCents(priceCase.rawPrice * priceCase.multiplier)
     IN /\ priceCase.reason \in {"ok", "lowPrice"}
        /\ priceCase.reason = "lowPrice" <=> computed < priceCase.minPrice
        /\ priceCase.reason = "ok" => priceCase.price = computed

(* ============================ stock quantity ============================= *)

\* the stock field of a feed row: absent, a JSON number (in tenths), or text
StockInputs ==
  { [type |-> "undefined"], [type |-> "null"], [type |-> "NaN"] }
  \cup { [type |-> "number", tenths |-> t] : t \in (0 - MaxStockTenths)..MaxStockTenths }
  \cup { [type |-> "string", chars |-> c] :
           c \in { <<>>, <<"a", "b", "c">>, <<"7">>, <<"7", ".", "9">>, <<"-", "5">>,
                   <<"1", "2", " ", "p", "z">> } }

DigitChars == <<"0", "1", "2", "3", "4", "5", "6", "7", "8", "9">>

IsDigit(c) == \E d \in 1..10 : DigitChars[d] = c

DigitValue(c) == (CHOOSE d \in 1..10 : DigitChars[d] = c) - 1

\* String(n) of a natural number
RECURSIVE NatChars(_)
NatChars(n) ==
  IF n < 10 THEN <<DigitChars[n + 1]>> ELSE Append(NatChars(n \div 10), DigitChars[(n % 10) + 1])

\* String(stock)
StringOf(stock) ==
  IF stock.type = "string" THEN stock.chars
  ELSE LET t == stock.tenths
           a == IF t < 0 THEN 0 - t ELSE t
           whole == NatChars(a \div 10)
           frac == IF a % 10 = 0 THEN <<>> ELSE <<".", DigitChars[(a % 10) + 1]>>
       IN (IF t < 0 THEN <<"-">> ELSE <<>>) \o whole \o frac

\* .replace(/[^\d]/g, '')
RECURSIVE StripNonDigits(_)
StripNonDigits(chars) ==
  IF chars = <<>> THEN <<>>
  ELSE (IF IsDigit(Head(chars)) THEN <<Head(chars)>> ELSE <<>>) \o StripNonDigits(Tail(chars))

\* parseInt(digits, 10) of a string of digits; -1 stands for NaN
RECURSIVE ParseIntDigits(_, _)
ParseIntDigits(chars, acc) ==
  IF chars = <<>> THEN acc
  ELSE ParseIntDigits(Tail(chars), 10 * acc + DigitValue(Head(chars)))

parseInt(chars) == IF chars = <<>> THEN -1 ELSE ParseIntDigits(chars, 0)

\* !stock
Falsy(stock) ==
  \/ stock.type \in {"undefined", "null", "NaN"}
  \/ stock.type = "number" /\ stock.tenths = 0
  \/ stock.type = "string" /\ stock.chars = <<>>

\* parseStock (Hybrid service): the quantity of the normalised product
parseStock(stock) ==
  IF Falsy(stock) THEN 0
  ELSE LET parsed == parseInt(StripNonDigits(StringOf(stock)))
       IN IF parsed = -1 THEN 0 ELSE Max(0, parsed)

\* MSYEcwidSync.validateProduct, step 4: the value left in product.stock
validateStock(stock) ==
  IF stock.type \notin {"undefined", "null"}
  THEN IF stock.type # "number" \/ stock.tenths < 0
       THEN 0
       ELSE stock.tenths \div 10
  ELSE 0

InitStock ==
  /\ IdleSync
  /\ IdleUnits({"stockCase"})
  /\ \E who \in {"Hybrid", "MSY"}, stock \in StockInputs :
       stockCase = [who |-> who, stock |-> stock, pc |-> "input", quantity |-> 0]

\* the implementation normalises the stock of the record
NormalizeStock ==
  /\ stockCase.who # "none"
  /\ stockCase.pc = "input"
  /\ stockCase' = [stockCase EXCEPT
                     !.pc = "done",
                     !.quantity = IF stockCase.who = "Hybrid"
                                  THEN parseStock(stockCase.stock)
                                  ELSE validateStock(stockCase.stock)]
  /\ UnitFrame({"stockCase"})

NextStock == NormalizeStock

SpecStock == InitStock /\ [][NextStock]_vars

\* text that does not denote a number
NonNumericText(stock) ==
  stock.type = "string" /\ \A i \in DOMAIN stock.chars : ~IsDigit(stock.chars[i])

\* C11: the quantity is 0 for a missing, non-numeric or negative stock and the
\* floor of the value for a non-negative number.
C11_StockQuantity ==
  (stockCase.who # "none" /\ stockCase.pc = "done") =>
     LET stock == stockCase.stock
     IN /\ (stock.type \in {"undefined", "null", "NaN"} \/ NonNumericText(stock))
              => stockCase.quantity = 0
        /\ (stock.type = "number" /\ stock.tenths < 0) => stockCase.quantity = 0
        /\ (stock.type = "number" /\ stock.tenths >= 0)
              => stockCase.quantity = stock.tenths \div 10

(* ===================== EcwidSyncManager.syncProducts ==================== *)

\* the elements of the products array of POST /api/sync: null, an object with
\* no sku, an object priced above the minimum without and with a
\* mainImageUrl, an object priced below the minimum
ManagerCatalog ==
  { [kind |-> "null",   sku |-> "",  name |-> "",  price |-> 0,     image |-> "none"],
    [kind |-> "object", sku |-> "",  name |-> "n", price |-> 50000, image |-> "none"],
    [kind |-> "object", sku |-> "a", name |-> "n", price |-> 50000, image |-> "none"],
    [kind |-> "object", sku |-> "a", name |-> "n", price |-> 50000, image |-> "url"],
    [kind |-> "object", sku |-> "b", name |-> "n", price |-> 12000, image |-> "none"] }

\* what processImageUrl finds behind an image URL
ImageKinds == {"image", "malformed", "unreachable", "notImage", "tooLarge"}

\* POST /api/sync answers 400 to an empty array: syncProducts gets the others
ManagerFeeds == SeqsUpTo(ManagerCatalog, MaxFeed) \ { <<>> }

\* constructor: this.stats
managerStats == [success |-> 0, created |-> 0, updated |-> 0, filtered |-> 0, error |-> 0]

\* a run-fatal error leaves syncProducts; POST /api/sync answers 500
managerThrows(m, message) ==
  [m EXCEPT !.pc = "failed", !.outcome = [kind |-> "error", message |-> message]]

\* syncProducts hands a result to results.push, counts the record and calls
\* onProgress; a callback that throws is caught by the try of the v2 loop,
\* which logs, and leaves the v1 loop, which has no try
pushResult(m, result) ==
  LET pushed == [m EXCEPT !.results = Append(@, result), !.idx = @ + 1]
  IN IF m.onProgress # "throws" THEN [pushed EXCEPT !.pc = "sleep"]
     ELSE IF m.ver = "v2" THEN [pushed EXCEPT !.pc = "critical"]
     ELSE managerThrows(pushed, "onProgress")

\* upsertProduct(product) up to its first network call, for the record after
\* the last one counted: a null element throws on productData.sku (and the
\* catch of syncProducts throws again on product.sku); the v2 manager returns
\* at once for a missing sku or name and for a filtered price
upsertEntry(m) ==
  LET product == m.products[m.idx + 1]
  IN IF product.kind = "null"
     THEN managerThrows(m, "TypeError")
     ELSE IF m.ver = "v2" /\ (product.sku = "" \/ product.name = "")
     THEN pushResult([m EXCEPT !.stats.error = @ + 1], "error")
     ELSE IF m.ver = "v2" /\ validateAndFilterProduct(product, DefaultMinPrice).reason # "ok"
     THEN pushResult([m EXCEPT !.stats.filtered = @ + 2], "filtered")
     ELSE [m EXCEPT !.pc = "search", !.calls = @ + 1]

\* the catch of upsertProduct
upsertCaught(m, sku, step) ==
  pushResult([m EXCEPT !.stats.error = @ + 1,
                       !.errorSKUs = Append(@, [sku |-> sku, step |-> step])],
             "error")

\* upsertProduct after the images: this.stats.success++ and the success result
upsertReturns(m) == pushResult([m EXCEPT !.stats.success = @ + 1], "success")

\* seeded fault for C27: a failed image makes upsertProduct fail
mediaFailed_Rethrows(m) ==
  upsertCaught([m EXCEPT !.troubled = @ \cup {m.idx + 1}],
               m.products[m.idx + 1].sku, "upsert")

\* an image that processImageUrl drops, or an upload whose error is caught and
\* logged (fallbackUploadMedia; v1: the try around uploadProductImage):
\* upsertProduct goes on
mediaFailed(m) == upsertReturns([m EXCEPT !.troubled = @ \cup {m.idx + 1}])

\* syncProducts after the loops: the object it returns
managerReturns(m) ==
  [m EXCEPT !.pc = "done",
            !.outcome = [kind |-> "report", stats |-> m.stats,
                         results |-> m.results, errors |-> m.errorSKUs]]

\* syncProducts after the requestDelay sleep that follows a record
afterRecord(m) ==
  IF m.idx = Len(m.products) THEN managerReturns(m)
  ELSE IF m.idx % BATCH_SIZE = 0 THEN [m EXCEPT !.pc = "pause"]
  ELSE upsertEntry(m)

\* syncProducts is entered and awaits testConnection()
managerEnteredWith(callbacks) ==
  \E ver \in {"v1", "v2"}, products \in ManagerFeeds, stored \in {{}, {"a"}},
     onProgress \in callbacks :
       mgr = [ver |-> ver, products |-> products, items |-> stored,
              onProgress |-> onProgress,
              pc |-> "test", tested |-> "no", idx |-> 0, existing |-> FALSE,
              results |-> <<>>, stats |-> managerStats, errorSKUs |-> <<>>,
              calls |-> 0, faults |-> 0, outcome |-> NoOutcome,
              written |-> {}, troubled |-> {}, dup |-> {}]

\* the routes pass a callback that writes a progress line, or none
managerEntered == managerEnteredWith({"logs"})

InitManager == IdleSync /\ IdleUnits({"mgr"}) /\ managerEntered

\* seeded fault for C13: the result of the connection test is not looked at
ConnectionTestSettles_NoCheck(ok) ==
  /\ mgr.ver # "none"
  /\ mgr.pc = "test"
  /\ mgr' = upsertEntry([mgr EXCEPT !.tested = IF ok THEN "ok" ELSE "failed"])
  /\ UnitFrame({"mgr"})

\* GET /profile settles: testConnection returns success or the failure
ConnectionTestSettles(ok) ==
  /\ mgr.ver # "none"
  /\ mgr.pc = "test"
  /\ mgr' = IF ok
            THEN upsertEntry([mgr EXCEPT !.tested = "ok"])
            ELSE managerThrows([mgr EXCEPT !.tested = "failed"],
                               "Cannot establish API connection")
  /\ UnitFrame({"mgr"})

\* searchProduct settles, with its retries exhausted when it failed
ManagerSearchSettles(answered) ==
  /\ mgr.ver # "none"
  /\ mgr.pc = "search"
  /\ answered \/ mgr.faults < MaxFaults
  /\ LET sku == mgr.products[mgr.idx + 1].sku
     IN mgr' = IF answered
               THEN [mgr EXCEPT !.existing = (sku # "" /\ sku \in mgr.items),
                                !.pc = "write", !.calls = @ + 1]
               ELSE upsertCaught([mgr EXCEPT !.faults = @ + 1, !.existing = FALSE],
                                 sku, "search")
  /\ UnitFrame({"mgr"})

\* the PUT or POST settles, with its retries exhausted when it failed
ManagerWriteSettles(answered) ==
  /\ mgr.ver # "none"
  /\ mgr.pc = "write"
  /\ answered \/ mgr.faults < MaxFaults
  /\ LET sku == mgr.products[mgr.idx + 1].sku
         held == ~mgr.existing /\ sku \in mgr.items
         stored == [mgr EXCEPT !.stats.updated = IF mgr.existing THEN @ + 1 ELSE @,
                               !.stats.created = IF mgr.existing THEN @ ELSE @ + 1,
                               !.items = @ \cup {sku},
                               !.dup = IF held THEN @ \cup {sku} ELSE @,
                               !.written = @ \cup {mgr.idx + 1}]
     IN mgr' = IF answered /\ held /\ uniqueSku
               THEN upsertCaught(mgr, sku, "search")
               ELSE IF answered
               THEN IF mgr.products[mgr.idx + 1].image = "none"
                    THEN upsertReturns(stored)
                    ELSE [stored EXCEPT !.pc = "head"]
               ELSE upsertCaught([mgr EXCEPT !.faults = @ + 1], sku,
                                 IF mgr.existing THEN "upsert" ELSE "search")
  /\ UnitFrame({"mgr"})

\* an attempt of the POST /products reaches the destination, which stores the
\* product, but the answer is lost (timeout) or is a 5xx: withRetry sleeps and
\* invokes the operation again
CreateAnswerLost ==
  /\ mgr.ver # "none"
  /\ mgr.pc = "write"
  /\ ~mgr.existing
  /\ mgr.faults < MaxFaults
  /\ LET sku == mgr.products[mgr.idx + 1].sku
     IN /\ sku \notin mgr.items
        /\ mgr' = [mgr EXCEPT !.items = @ \cup {sku}, !.faults = @ + 1,
                              !.calls = @ + 1]
  /\ UnitFrame({"mgr"})

\* processImageUrl settles on the mainImageUrl of the record: a URL that is
\* not a reachable image of acceptable size is dropped, a good one is
\* uploaded (v2: bulkUploadMedia, v1: uploadProductImage)
ImageCheckSettles(kind) ==
  /\ mgr.ver # "none"
  /\ mgr.pc = "head"
  /\ mgr' = IF kind = "image"
            THEN [mgr EXCEPT !.pc = "upload", !.calls = @ + 1]
            ELSE mediaFailed(mgr)
  /\ UnitFrame({"mgr"})

\* the upload settles, with its retries exhausted when it failed: the v2
\* manager then falls back to the individual upload
MediaUploadSettles(answered) ==
  /\ mgr.ver # "none"
  /\ mgr.pc = "upload"
  /\ mgr' = IF answered THEN upsertReturns(mgr)
            ELSE IF mgr.ver = "v2"
            THEN [mgr EXCEPT !.pc = "fallback", !.calls = @ + 1,
                             !.troubled = @ \cup {mgr.idx + 1}]
            ELSE mediaFailed(mgr)
  /\ UnitFrame({"mgr"})

\* fallbackUploadMedia: uploadProductImage settles, with its retries
\* exhausted when it failed
FallbackUploadSettles(answered) ==
  /\ mgr.ver # "none"
  /\ mgr.pc = "fallback"
  /\ mgr' = IF answered THEN upsertReturns(mgr) ELSE mediaFailed(mgr)
  /\ UnitFrame({"mgr"})

\* sleep(requestDelay) after a record elapses
RequestDelayElapsed ==
  /\ mgr.ver # "none"
  /\ mgr.pc = "sleep"
  /\ mgr' = afterRecord(mgr)
  /\ UnitFrame({"mgr"})

\* the sleep between two batches elapses
BatchPauseElapsed ==
  /\ mgr.ver # "none"
  /\ mgr.pc = "pause"
  /\ mgr' = upsertEntry(mgr)
  /\ UnitFrame({"mgr"})

NextManager ==
  \/ \E ok \in BOOLEAN : ConnectionTestSettles(ok)
  \/ \E answered \in BOOLEAN : ManagerSearchSettles(answered)
  \/ \E answered \in BOOLEAN : ManagerWriteSettles(answered)
  \/ CreateAnswerLost
  \/ \E kind \in ImageKinds : ImageCheckSettles(kind)
  \/ \E answered \in BOOLEAN : MediaUploadSettles(answered)
  \/ \E answered \in BOOLEAN : FallbackUploadSettles(answered)
  \/ RequestDelayElapsed
  \/ BatchPauseElapsed

(* ---- one run of whichever server is deployed ---- *)

InitRuns == Init \/ InitManager

\* a network call or a timer of the run completes
Completions ==
  \/ \E kind \in {"error", "norows", "rows"} : CsvResponse(1, kind)
  \/ \E kind \in {"error", "invalid", "rows"} : JsonResponse(1, kind)
  \/ \E kind \in {"error", "rows"} : MsyResponse(1, kind)
  \/ \E k \in 1..MaxFeed, answered \in BOOLEAN : SearchResponse(1, k, answered)
  \/ \E k \in 1..MaxFeed, answered \in BOOLEAN : UpsertResponse(1, k, answered)
  \/ BatchDelayElapsed(1)
  \/ NextManager

NextRuns ==
  \/ TriggerWhenIdle(1)
  \/ Completions

SpecRuns == InitRuns /\ [][NextRuns]_vars

\* every network call and every timer eventually completes
SpecRunsFair == SpecRuns /\ WF_vars(Completions)

(* ========================= properties of a run ========================== *)

\* the feed of run r could not be acquired
FeedFailed(r) == BothFailed(r) \/ srcLog[r] = <<"msy?", "msy:error">>

ManagerEnded == mgr.ver # "none" /\ mgr.pc \in {"done", "failed"}

\* C12: a record that fails never aborts the run: once the run has started on
\* its records it ends with a report in which every record has its outcome.
C12_RecordFailureDoesNotAbort ==
  /\ \A r \in Runs :
       (results[r].source # "none" \/ srcLog[r] = <<"msy?", "msy:rows">>) =>
          /\ pc[r] # "failed"
          /\ Reported(r) => \A k \in DOMAIN rec[r] : rec[r][k] = "done"
  /\ (mgr.ver # "none" /\ mgr.tested = "ok" /\ ManagerEnded) =>
          /\ mgr.pc = "done"
          /\ Len(mgr.results) = Len(mgr.products)

\* C13: when the feed cannot be acquired, or the connection test at run start
\* fails, the run ends with a run-fatal error and no search, create or update
\* call was issued for any record.
C13_RunFatalBeforeAnyRecord ==
  /\ \A r \in Runs :
       FeedFailed(r) => /\ pc[r] = "failed"
                        /\ outcome[r].kind = "error"
                        /\ destCalls[r] = 0
                        /\ rec[r] = <<>>
  /\ (mgr.ver # "none" /\ mgr.tested = "failed") =>
       /\ mgr.pc = "failed"
       /\ mgr.outcome.kind = "error"
       /\ mgr.calls = 0
       /\ mgr.results = <<>>

C13_Witness ==
  /\ mgr.ver # "none" /\ mgr.tested = "failed" /\ mgr.pc = "failed"
  /\ Len(mgr.products) >= 2
  /\ \E k \in DOMAIN mgr.products : mgr.products[k].sku = "a"

\* C17: records with no resolvable SKU cause no destination call and are
\* counted in ignored, never in errors.
C17_NoSkuDropped ==
  /\ (Reported(1) /\ Len(results[1].products) > 0
        /\ \A k \in DOMAIN results[1].products : SkuOf(results[1].products[k]) = "") =>
       /\ destCalls[1] = 0
       /\ outcome[1].stats.errors = 0
       /\ outcome[1].stats.ignored = outcome[1].stats.total
  /\ (mgr.ver # "none" /\ mgr.pc = "done"
        /\ \A k \in DOMAIN mgr.products :
             mgr.products[k].kind = "object" /\ mgr.products[k].sku = "") =>
       /\ mgr.calls = 0
       /\ mgr.stats.error = 0

(* ============================ policy checks ============================== *)

\* feed rows by what the checks look at: sku present or not, price missing,
\* low or acceptable, images present or not
PolicyCatalog ==
  { [article_num |-> sku, name |-> "n", price |-> price, images |-> images] :
      sku \in {"a", ""}, price \in {0, 7000, 12000}, images \in {0, 1} }

\* seeded fault for C14: a rejection is counted in ignored only
rejectRecord_NoReason(st, reason) == Bump(st, "ignored")

\* processProduct for a record the checks reject: the reason counter of the
\* check that failed, then stats.ignored++
rejectRecord(st, reason) == Bump(Bump(st, reason), "ignored")

\* a service with a REQUIRE_IMAGES setting starts a run: resetStats
InitPolicy ==
  /\ IdleSync
  /\ IdleUnits({"policyCase"})
  /\ \E who \in {"Hybrid", "MSY"}, requireImages \in BOOLEAN :
       policyCase = [who |-> who, requireImages |-> requireImages,
                     stats |-> resetStats, checked |-> 0, rejected |-> 0,
                     last |-> [product |-> "none", reason |-> "none",
                              before |-> resetStats]]

\* processProduct validates the next record of the feed
CheckRecord(product) ==
  /\ policyCase.who # "none"
  /\ policyCase.checked < MaxPolicyRecords
  /\ LET v == IF policyCase.who = "Hybrid"
              THEN normalizeProductChecks(product, policyCase.requireImages)
              ELSE validateProductChecks(product, policyCase.requireImages)
     IN policyCase' =
          [policyCase EXCEPT
             !.checked = @ + 1,
             !.rejected = IF v.reason = "ok" THEN @ ELSE @ + 1,
             !.stats = IF v.reason = "ok" THEN @ ELSE rejectRecord(@, v.reason),
             !.last = [product |-> product, reason |-> v.reason,
                       before |-> policyCase.stats]]
  /\ UnitFrame({"policyCase"})

NextPolicy == \E product \in PolicyCatalog : CheckRecord(product)

SpecPolicy == InitPolicy /\ [][NextPolicy]_vars

ReasonsSum(st) == st.noImages + st.lowPrice + st.invalidData

\* C14: every rejected record adds one to exactly one reason counter and
\* accepted records add none, so ignored = noImages + lowPrice + invalidData
\* (and both equal the number of rejected records).
C14_ReasonsPartitionIgnored ==
  policyCase.who # "none" =>
    /\ policyCase.stats.ignored = ReasonsSum(policyCase.stats)
    /\ ReasonsSum(policyCase.stats) = policyCase.rejected
    /\ \A c \in {"noImages", "lowPrice", "invalidData"} :
         policyCase.stats[c] =
           policyCase.last.before[c] + (IF policyCase.last.reason = c THEN 1 ELSE 0)

C14_Witness ==
  /\ policyCase.who # "none"
  /\ policyCase.checked = 3 /\ policyCase.rejected = 2
  /\ policyCase.stats.lowPrice = 1 /\ policyCase.stats.noImages = 1

\* C15: with images required, a record with an invalid price and no images
\* is rejected for invalid data, and one with a too-low price and no images for
\* low price.
C15_CheckOrder ==
  (policyCase.who # "none" /\ policyCase.requireImages
     /\ policyCase.last.reason # "none" /\ policyCase.last.product.images = 0) =>
       /\ policyCase.last.product.price = 0 => policyCase.last.reason = "invalidData"
       /\ policyCase.last.product.price = 7000 /\ policyCase.last.product.article_num # ""
            => policyCase.last.reason = "lowPrice"

\* C16: a create answered with a duplicate-key conflict counts as a successful
\* update. With no server failure in the run, a conflict is the only answer
\* that is not a success, so the run reports no error and no error entry.
C16_ConflictCountsAsUpdate ==
  (Reported(1) /\ faults = 0) =>
     /\ outcome[1].stats.errors = 0
     /\ outcome[1].errorSKUs = <<>>
     /\ outcome[1].stats.updated + outcome[1].stats.created
          = Accepted(results[1].products)

\* a triggered run eventually ends
EventuallyEnds ==
  /\ (pc[1] # "idle") ~> (pc[1] \in {"done", "failed"})
  /\ (mgr.ver # "none") ~> ManagerEnded

\* the run ends with an error only for a run-fatal cause: the feed could not be
\* acquired or the connection test failed
OnlyFatalCausesEndInError ==
  /\ outcome[1].kind = "error" => FeedFailed(1)
  /\ (mgr.ver # "none" /\ mgr.outcome.kind = "error") => mgr.tested = "failed"

\* C18: every triggered run eventually ends, provided every network call and
\* timer completes, with a report or with one run-fatal error; per-record
\* errors alone never make it end with an error.
C18_EndsWithReportOrFatalError == EventuallyEnds /\ []OnlyFatalCausesEndInError

(* ========================= EcwidSyncManager.log ========================= *)

\* the cap of this.logs, per revision of the manager
LogCapV2 == 2000
LogCapV1 == 1000

logCap(ver) == IF ver = "v2" THEN LogCapV2 ELSE LogCapV1

\* seeded fault for C19: the trim keeps the head of the list
trimLogs_KeepsOldest(entries, cap) ==
  IF Len(entries) > cap THEN SubSeq(entries, 1, cap) ELSE entries

\* if (this.logs.length > cap) this.logs = this.logs.slice(-cap)
trimLogs(entries, cap) ==
  IF Len(entries) > cap
  THEN SubSeq(entries, Len(entries) - cap + 1, Len(entries))
  ELSE entries

\* constructor: this.logs = []
InitLog ==
  /\ IdleSync
  /\ IdleUnits({"logs"})
  /\ \E ver \in {"v1", "v2"} : logs = [ver |-> ver, entries |-> <<>>, calls |-> 0]

\* log(message, level): the entry (numbered by the call) is pushed, the list
\* trimmed
LogCall ==
  /\ logs.ver # "none"
  /\ logs.calls < MaxLogCalls
  /\ logs' = [logs EXCEPT
                !.calls = @ + 1,
                !.entries = trimLogs(Append(@, logs.calls + 1), logCap(logs.ver))]
  /\ UnitFrame({"logs"})

NextLog == LogCall

SpecLog == InitLog /\ [][NextLog]_vars

\* C19: after a log call the list holds at most the cap (2000, v1: 1000);
\* the entries held are the most recent ones, in the order they were logged.
C19_LogBoundedTail ==
  logs.ver # "none" =>
    /\ Len(logs.entries) = Min(logs.calls, logCap(logs.ver))
    /\ \A i \in DOMAIN logs.entries :
         logs.entries[i] = logs.calls - Len(logs.entries) + i

C19_Witness ==
  /\ logs.ver = "v2"
  /\ logs.calls = LogCapV2 + 2
  /\ Len(logs.entries) = LogCapV2
  /\ logs.entries[1] = 3

(* ======================== error details of a report ===================== *)

\* this.errorSKUs at the end of a run: the entries numbered in the order the
\* failures were recorded
InitReport ==
  /\ IdleSync
  /\ IdleUnits({"reportCase"})
  /\ \E who \in {"Hybrid", "MSY"}, n \in 0..MaxErrors :
       reportCase = [who |-> who, errs |-> [i \in 1..n |-> i],
                     pc |-> "input", errorSKUs |-> <<>>]

\* generateReport builds the errorSKUs field of the report
BuildReport ==
  /\ reportCase.who # "none"
  /\ reportCase.pc = "input"
  /\ reportCase' = [reportCase EXCEPT
                      !.pc = "done",
                      !.errorSKUs = reportErrorSKUs(reportCase.who, reportCase.errs)]
  /\ UnitFrame({"reportCase"})

NextReport == BuildReport

SpecReport == InitReport /\ [][NextReport]_vars

\* C20: the error details of the report never exceed the cap, and when more
\* failures were recorded than the cap the most recent ones are kept.
C20_ErrorDetailsTail ==
  (reportCase.who # "none" /\ reportCase.pc = "done") =>
     LET cap == IF reportCase.who = "Hybrid" THEN ReportErrorCap ELSE MSYReportErrorCap
         n == Len(reportCase.errs)
         kept == reportCase.errorSKUs
     IN /\ Len(kept) = Min(n, cap)
        /\ \A i \in DOMAIN kept : kept[i] = reportCase.errs[n - Len(kept) + i]

(* ============================ batch discipline ========================== *)

\* records of run r whose processProduct task awaits the destination
InFlight(r) == {k \in DOMAIN rec[r] : rec[r][k] \in {"search", "upsert"}}

\* number (from 0) of the batch record k belongs to
BatchOf(k) == (k - 1) \div BATCH_SIZE

\* C21: no record of a later batch has started while a record of an earlier
\* batch has not reached its outcome, and at most BATCH_SIZE records of a run
\* are in flight; the manager, which awaits each record in turn, has at most
\* one in flight, every record before it having its result.
C21_BatchesInOrderBoundedFanOut ==
  /\ \A r \in Runs :
       /\ Cardinality(InFlight(r)) <= BATCH_SIZE
       /\ \A k, j \in DOMAIN rec[r] :
            (rec[r][k] # "wait" /\ BatchOf(j) < BatchOf(k)) => rec[r][j] = "done"
  /\ (mgr.ver # "none" /\ mgr.pc \in {"search", "write"}) =>
       /\ mgr.idx < Len(mgr.products)
       /\ Len(mgr.results) = mgr.idx

C21_Witness ==
  /\ Len(rec[1]) = 3
  /\ rec[1][1] = "done" /\ rec[1][2] = "done" /\ rec[1][3] \in {"search", "upsert"}
  /\ stats.processed + stats.errors >= 2

(* ================== EcwidSyncManager.enforceRateLimit =================== *)

\* config.requestDelay
RequestDelay == 500

\* enforceRateLimit up to its await: the time it decides to sleep, 0 for none
waitTime(now, lastRequestTime) ==
  IF now - lastRequestTime < RequestDelay
  THEN RequestDelay - (now - lastRequestTime)
  ELSE 0

\* makeRequest is entered: the destination call starts at the current time
startCall(rc) == [rc EXCEPT !.pc = "request", !.starts = Append(@, rc.now)]

\* enforceRateLimit once it does not (or no longer) sleep: lastRequestTime is
\* set, withRetry invokes the operation
passRateLimit(rc) == startCall([rc EXCEPT !.lastRequestTime = rc.now])

\* constructor (lastRequestTime = 0) and syncProducts entered at some time of
\* the clock; times are in milliseconds
InitRate ==
  /\ IdleSync
  /\ IdleUnits({"rateCase"})
  /\ \E t0 \in {2 * RequestDelay, 2 * RequestDelay + TimeStep} :
       rateCase = [pc |-> "start", now |-> t0, lastRequestTime |-> 0,
                   wake |-> 0, starts |-> <<>>]

\* testConnection: makeRequest('GET', '/profile') is called directly
TestConnectionStarts ==
  /\ rateCase.pc = "start"
  /\ rateCase' = startCall(rateCase)
  /\ UnitFrame({"rateCase"})

\* the destination call in progress settles, some time after it started; the
\* caller goes on
RequestSettles ==
  /\ rateCase.pc = "request"
  /\ rateCase.now > rateCase.starts[Len(rateCase.starts)]
  /\ rateCase' = [rateCase EXCEPT !.pc = "between"]
  /\ UnitFrame({"rateCase"})

\* withRetry is entered for the next call of the run: enforceRateLimit
EnterRateLimit ==
  /\ rateCase.pc = "between"
  /\ Len(rateCase.starts) < MaxCalls
  /\ LET w == waitTime(rateCase.now, rateCase.lastRequestTime)
     IN rateCase' = IF w > 0
                    THEN [rateCase EXCEPT !.pc = "sleep", !.wake = rateCase.now + w]
                    ELSE passRateLimit(rateCase)
  /\ UnitFrame({"rateCase"})

\* the sleep(waitTime) of enforceRateLimit elapses
RateLimitSleepElapsed ==
  /\ rateCase.pc = "sleep"
  /\ rateCase.now >= rateCase.wake
  /\ rateCase' = passRateLimit(rateCase)
  /\ UnitFrame({"rateCase"})

\* time passes while a call, a sleep or the work between two calls goes on
Tick ==
  /\ rateCase.pc \in {"request", "between", "sleep"}
  /\ rateCase.now < MaxTime
  /\ rateCase' = [rateCase EXCEPT !.now = @ + TimeStep]
  /\ UnitFrame({"rateCase"})

NextRate ==
  \/ TestConnectionStarts
  \/ RequestSettles
  \/ EnterRateLimit
  \/ RateLimitSleepElapsed
  \/ Tick

SpecRate == InitRate /\ [][NextRate]_vars

\* C22: the start times of any two destination calls of a run, the connection
\* test included, are at least requestDelay apart.
C22_CallsSpaced ==
  rateCase.pc # "none" =>
    \A i, j \in DOMAIN rateCase.starts :
      i < j => rateCase.starts[j] - rateCase.starts[i] >= RequestDelay

(* ============================ counter updates =========================== *)

\* C23: whenever the tasks of a batch have all ended, each counter has grown by
\* one for every record that took its branch since the statistics were reset:
\* ignored for a rejected record, processed for a written one, errors for a
\* failed one.
C23_NoLostCounterUpdates ==
  pc[1] \in {"pause", "done"} =>
    /\ stats.ignored = took.ignored
    /\ stats.processed = took.processed
    /\ stats.errors = took.errors

(* ======================== statistics of a run =========================== *)

\* C24: the report of a run counts only that run's records, nothing of the run
\* triggered before it: never more ignored records than the run's feed has
\* records the checks reject, never more processed, created or updated than it
\* has accepted ones, and no error when it has no accepted record.
C24_ReportExcludesEarlierRun ==
  Reported(2) =>
    LET prods == results[2].products
        st == outcome[2].stats
    IN /\ st.total = Len(prods)
       /\ st.ignored <= Len(prods) - Accepted(prods)
       /\ st.processed <= Accepted(prods)
       /\ st.created + st.updated <= Accepted(prods)
       /\ Accepted(prods) = 0 => (st.errors = 0 /\ outcome[2].errorSKUs = <<>>)

\* the counters of this.stats
Counters ==
  {"processed", "created", "updated", "ignored", "errors",
   "noImages", "lowPrice", "invalidData", "apiError"}

\* C25: while a run is between its start and its report, no step makes a
\* counter of the statistics smaller, whatever triggers arrive meanwhile.
C25_CountersMonotonic ==
  [][(\E r \in Runs : Active(r)) => \A c \in Counters : stats'[c] >= stats[c]]_vars

(* ================= destination calls and non-JSON bodies ================ *)

\* ecwidFetch (part_002): fetch(...).then(res => res.json()); the status is
\* not looked at, a body that is not JSON makes res.json() reject
ecwidFetch(resp) == [ok |-> resp.body = "json", responseStatus |-> 0]

\* a destination call made outside withRetry: the GET /profile of
\* testConnection (both revisions of the manager) or a call of syncMSYtoEcwid
\* through ecwidFetch
InitDirect ==
  /\ IdleSync
  /\ IdleUnits({"retry"})
  /\ \E c \in { [ver |-> "v1", via |-> "testConnection"],
               [ver |-> "v2", via |-> "testConnection"],
               [ver |-> "part_002", via |-> "ecwidFetch"] } :
       retry = [ver |-> c.ver, via |-> c.via, maxRetries |-> 0,
                pc |-> "call", attempt |-> 1, attempts |-> 1, sleeps |-> 0,
                prevDelay |-> 0, lastDelay |-> 0,
                only503 |-> TRUE, definitiveAt |-> 0, last |-> "none",
                okAt |-> 0, lastError |-> NoAnswer, settled |-> NoAnswer]

\* the call settles: the caller gets the data, or its catch takes the error
\* (testConnection returns success: false, syncMSYtoEcwid counts an error)
DirectCallSettles(resp) ==
  /\ retry.ver # "none"
  /\ retry.via # "withRetry"
  /\ retry.pc = "call"
  /\ LET res == IF retry.via = "ecwidFetch" THEN ecwidFetch(resp)
                ELSE makeRequest(retry.ver, resp)
     IN retry' = [retry EXCEPT !.last = resp.body,
                               !.only503 = @ /\ resp.status = 503,
                               !.pc = IF res.ok THEN "returned" ELSE "threw"]
  /\ UnitFrame({"retry"})

InitCalls == InitRetry \/ InitDirect

NextCalls ==
  \/ NextRetry
  \/ \E resp \in Responses : DirectCallSettles(resp)

SpecCalls == InitCalls /\ [][NextCalls]_vars

\* C26: a call answered with an HTML body, whatever the status, is a transient
\* failure: the caller neither takes the body as data nor gives up; it sleeps
\* and calls again, unless the attempts the retry policy grants are used up.
C26_HtmlBodyIsTransient ==
  (retry.ver # "none" /\ retry.last = "html" /\ retry.pc # "call") =>
     \/ retry.pc = "sleep"
     \/ /\ retry.pc = "threw"
        /\ retry.via = "withRetry"
        /\ retry.attempts = retry.maxRetries

(* ============================ product images ============================ *)

\* number of records of the manager run with the given result
ResultCount(result) ==
  Cardinality({k \in DOMAIN mgr.results : mgr.results[k] = result})

\* C27: whatever happens to the image of a record whose create or update
\* succeeded (dropped by processImageUrl, upload failed in bulk and in the
\* fallback), the record is reported as success and counted in created or
\* updated, and no error is counted for it.
C27_ImageFailureKeepsOutcome ==
  mgr.ver # "none" =>
    /\ \A k \in mgr.written : k <= Len(mgr.results) => mgr.results[k] = "success"
    /\ mgr.stats.created + mgr.stats.updated = Cardinality(mgr.written)
    /\ mgr.stats.error = ResultCount("error")
    /\ Len(mgr.errorSKUs) <= ResultCount("error")
    /\ mgr.troubled \subseteq mgr.written

C27_Witness ==
  /\ mgr.ver = "v2" /\ mgr.pc = "done"
  /\ \E k \in mgr.troubled : mgr.results[k] = "success"
  /\ mgr.stats.error = 0
  /\ mgr.calls >= 4

(* ================= creates against either kind of destination =========== *)

\* one run of whichever server is deployed, against a destination that does or
\* does not refuse a second product under an SKU it holds
InitDest ==
  /\ uniqueSku \in BOOLEAN
  /\ \/ InitSync /\ IdleUnits({"uniqueSku"})
     \/ IdleSync /\ IdleUnits({"mgr", "uniqueSku"}) /\ managerEntered

SpecDest == InitDest /\ [][NextRuns]_vars

\* C29: when every call is answered, two records with the same SKU processed
\* in one batch never leave two destination entities under that SKU.
C29_ConcurrentCreatesOneEntity ==
  faults = 0 =>
    \A e1, e2 \in items : (e1.sku # "" /\ e1.sku = e2.sku) => e1.id = e2.id

\* C30: a create that withRetry repeats after an attempt whose answer was
\* lost never leaves two destination entities under the SKU.
C30_RetriedCreateOneEntity ==
  mgr.ver # "none" => mgr.dup = {}

(* ================= syncMSYtoEcwid (part_002) ============================= *)

\* the article_num values of the price_list handed to the loop
PriceLists == SeqsUpTo({"", "a", "b"}, MaxFeed)

\* the destination before the call: empty, holding "a" once, or holding two
\* products that a search for "a" both returns
InitialEcwid == InitialItems \cup {{[id |-> 1, sku |-> "a"], [id |-> 2, sku |-> "a"]}}

\* the head of the for loop: a product with no SKU is counted as ignored and
\* skipped; the first product with an SKU has its search sent; after the last
\* product the counts are returned
RECURSIVE nextProduct(_)
nextProduct(c) ==
  IF c.i = Len(c.list) THEN [c EXCEPT !.pc = "done"]
  ELSE IF c.list[c.i + 1] = ""
       THEN nextProduct([c EXCEPT !.i = @ + 1, !.countIgnored = @ + 1])
       ELSE [c EXCEPT !.pc = "search"]

\* the entities of the destination of the loop with the given sku
EcwidMatches(c, sku) == {e \in c.items : e.sku = sku}

\* searchRes.items[0] of a search answered with a list (0 when it is empty)
firstItem(ids) ==
  IF ids = {} THEN 0 ELSE CHOOSE id \in ids : \A other \in ids : id <= other

InitMsySync ==
  /\ IdleSync
  /\ IdleUnits({"msySync"})
  /\ \E list \in PriceLists, stored \in InitialEcwid :
       msySync = nextProduct(
                   [pc |-> "head", list |-> list, i |-> 0, found |-> 0,
                    items |-> stored, nextId |-> 3, faults |-> 0,
                    countCreated |-> 0, countUpdated |-> 0, countIgnored |-> 0,
                    countError |-> 0,
                    sought |-> [k \in 1..Len(list) |-> NotSought]])

\* the search of the current product settles: with a body holding an items
\* list, with a JSON body holding none (an error answer, which ecwidFetch does
\* not tell apart), or by throwing (network failure, body that is not JSON)
EcwidSearchSettles(kind) ==
  /\ msySync.pc = "search"
  /\ kind = "list" \/ msySync.faults < MaxFaults
  /\ LET k == msySync.i + 1
         ids == {e.id : e \in EcwidMatches(msySync, msySync.list[k])}
         found == IF kind = "list" THEN firstItem(ids) ELSE 0
     IN msySync' =
          IF kind = "threw"
          THEN nextProduct([msySync EXCEPT
                 !.countError = @ + 1, !.faults = @ + 1, !.i = @ + 1,
                 !.sought[k] = [searched |-> "failed", ids |-> {}, writes |-> <<>>]])
          ELSE [msySync EXCEPT
                 !.pc = "write", !.found = found,
                 !.faults = IF kind = "list" THEN @ ELSE @ + 1,
                 !.sought[k] = [searched |-> IF kind = "list" THEN "answered" ELSE "failed",
                                ids |-> IF kind = "list" THEN ids ELSE {},
                                writes |-> <<writeFor(found)>>]]
  /\ UnitFrame({"msySync"})

\* the PUT or POST of the current product settles: with a JSON body (counted
\* as updated or created whatever its status) or by throwing
EcwidWriteSettles(parsed) ==
  /\ msySync.pc = "write"
  /\ parsed \/ msySync.faults < MaxFaults
  /\ LET k == msySync.i + 1
         sku == msySync.list[k]
         w == msySync.sought[k].writes[1]
         stores == parsed /\ w.method = "POST"
                     /\ ~(uniqueSku /\ EcwidMatches(msySync, sku) # {})
     IN msySync' = nextProduct([msySync EXCEPT
          !.i = @ + 1,
          !.found = 0,
          !.faults = IF parsed THEN @ ELSE @ + 1,
          !.countUpdated = IF parsed /\ w.method = "PUT" THEN @ + 1 ELSE @,
          !.countCreated = IF parsed /\ w.method = "POST" THEN @ + 1 ELSE @,
          !.countError = IF parsed THEN @ ELSE @ + 1,
          !.items = IF stores THEN @ \cup {[id |-> msySync.nextId, sku |-> sku]} ELSE @,
          !.nextId = IF stores THEN @ + 1 ELSE @])
  /\ UnitFrame({"msySync"})

NextMsySync ==
  \/ \E kind \in {"list", "noList", "threw"} : EcwidSearchSettles(kind)
  \/ \E parsed \in BOOLEAN : EcwidWriteSettles(parsed)

(* ================= one reconciliation per accepted record ================ *)

\* one run of the Hybrid or MSY service, or one call of syncMSYtoEcwid
InitReconcile == Init \/ InitMsySync

NextReconcile ==
  \/ TriggerWhenIdle(1)
  \/ \E kind \in {"error", "norows", "rows"} : CsvResponse(1, kind)
  \/ \E kind \in {"error", "invalid", "rows"} : JsonResponse(1, kind)
  \/ \E kind \in {"error", "rows"} : MsyResponse(1, kind)
  \/ \E k \in 1..MaxFeed, answered \in BOOLEAN : SearchResponse(1, k, answered)
  \/ \E k \in 1..MaxFeed, answered \in BOOLEAN : UpsertResponse(1, k, answered)
  \/ BatchDelayElapsed(1)
  \/ NextMsySync

SpecReconcile == InitReconcile /\ [][NextReconcile]_vars

\* what was observed for every record whose search has settled, in a run of
\* the service and in the loop of syncMSYtoEcwid
Reconciled ==
  {o \in UNION {{sought[r][k] : k \in DOMAIN sought[r]} : r \in Runs} \cup
         (IF msySync.pc = "none" THEN {}
          ELSE {msySync.sought[k] : k \in DOMAIN msySync.sought}) :
     o.searched # "no"}

\* the one write the search result calls for: an update of the first entry, or
\* a create when the result was empty
OneWriteFor(o) ==
  /\ Len(o.writes) = 1
  /\ IF o.ids # {}
     THEN o.writes[1] = [method |-> "PUT", id |-> firstItem(o.ids)]
     ELSE o.writes[1].method = "POST"

\* C28 as stated: every accepted record gets exactly one write, an update of
\* the first entry the search returned or a create when it returned none.
C28_ExactlyOneWrite == \A o \in Reconciled : OneWriteFor(o)

\* C28: every accepted record whose search was answered with a result list
\* gets exactly one write, an update of the first entry of the list or a create
\* when the list was empty; no record gets more than one write.
C28_OneWriteAfterAnsweredSearch ==
  \A o \in Reconciled :
    /\ Len(o.writes) <= 1
    /\ o.searched = "answered" => OneWriteFor(o)

\* the loop has ended having updated the first of two entities returned for
\* one record and created the product of another
C28_Witness ==
  /\ msySync.pc = "done"
  /\ \E k, j \in DOMAIN msySync.sought :
       /\ msySync.sought[k].ids = {1, 2}
       /\ msySync.sought[k].writes = <<[method |-> "PUT", id |-> 1]>>
       /\ msySync.sought[j].searched = "answered"
       /\ msySync.sought[j].writes = <<[method |-> "POST", id |-> 0]>>
  /\ msySync.countUpdated >= 1
  /\ msySync.countCreated >= 1

(* ================= a failed search ======================================= *)

\* C31: a record whose search-by-SKU call failed gets no create call.
C31_FailedSearchNoCreate ==
  \A r \in Runs : \A k \in DOMAIN sought[r] :
    sought[r][k].searched = "failed" =>
      \A w \in DOMAIN sought[r][k].writes : sought[r][k].writes[w].method # "POST"

(* ================= the error list and the errors counter ================= *)

\* C32: when a run has ended, the error list holds as many entries as
\* stats.errors counts.
C32_ErrorEntriesEqualErrors ==
  pc[1] = "done" => Len(errorSKUs) = stats.errors

(* ================= withRetry ends ======================================== *)

\* every attempt and every backoff sleep of withRetry completes
SpecRetryFair == SpecRetry /\ WF_vars(NextRetry)

\* what holds of withRetry at every moment: no attempt beyond maxRetries, the
\* value returned is that of the first successful attempt, which is the last
\* one made, and the error thrown is that of the last attempt made
withRetryBounded ==
  /\ retry.attempts <= retry.maxRetries
  /\ retry.pc = "returned" =>
       /\ retry.okAt = retry.attempts
       /\ retry.settled.body = retry.last
       /\ makeRequest(retry.ver, retry.settled).ok
  /\ retry.pc # "returned" => retry.okAt = 0
  /\ retry.pc = "threw" =>
       /\ retry.settled.body = retry.last
       /\ ~makeRequest(retry.ver, retry.settled).ok
       /\ retry.attempts = retry.maxRetries \/ isDefinitive(makeRequest(retry.ver, retry.settled))

\* C33: withRetry invokes the operation at most maxRetries times, returns the
\* value of the first successful attempt with no further attempt, throws the
\* error of the last attempt after maxRetries failures, and always ends.
C33_WithRetryTerminates ==
  /\ [](retry.ver # "none" => withRetryBounded)
  /\ <>(retry.ver # "none" => retry.pc \in {"returned", "threw"})

\* withRetry has thrown the 503 of its third and last attempt
C33_Witness ==
  /\ retry.ver # "none"
  /\ retry.pc = "threw"
  /\ retry.maxRetries = 3
  /\ retry.attempts = 3
  /\ retry.settled = [status |-> 503, body |-> "json"]

(* ================= the backoff delay of withRetry ======================== *)

\* values of config.retryDelay: the two configured ones and others a
\* constructor argument could carry
RetryDelays == {0, 1, 500, RetryDelayV1, RetryDelayV2, MaxDelayV1, MaxDelayV2 + 1}

InitDelay ==
  /\ IdleSync
  /\ IdleUnits({"delayCase"})
  /\ \E ver \in {"v1", "v2"}, rd \in RetryDelays, attempt \in 1..MaxRetriesBound :
       \E jitter \in Jitters(ver) :
         delayCase = [pc |-> "input", ver |-> ver, retryDelay |-> rd,
                      attempt |-> attempt, jitter |-> jitter, delay |-> 0]

\* the catch of withRetry computes the delay
ComputeDelay ==
  /\ delayCase.pc = "input"
  /\ delayCase' = [delayCase EXCEPT
                     !.pc = "done",
                     !.delay = delayFor(delayCase.ver, delayCase.retryDelay,
                                        delayCase.attempt, delayCase.jitter)]
  /\ UnitFrame({"delayCase"})

NextDelay == ComputeDelay

SpecDelay == InitDelay /\ [][NextDelay]_vars

\* C34: every delay withRetry computes, jitter included, is at most the fixed
\* maximum delay of its revision.
C34_DelayAtMostCap ==
  delayCase.pc = "done" => delayCase.delay <= maxDelay(delayCase.ver)

\* a delay that the cap cut down: 1500 * 2^6 plus jitter, computed as 60000
C34_Witness ==
  /\ delayCase.pc = "done"
  /\ delayCase.ver = "v2"
  /\ delayCase.retryDelay = RetryDelayV2
  /\ delayCase.attempt = 7
  /\ delayCase.jitter > 0
  /\ delayCase.delay = MaxDelayV2

(* ================= the duration of a run ================================= *)

\* stats.startTime and stats.endTime after resetStats: null, which the
\* subtraction of generateReport reads as 0
NullTime == 0

\* Date.now() when the trigger arrives
Epoch == 1000

\* Math.round(duration / 1000)
durationSeconds(duration) == (duration + 500) \div 1000

\* generateReport: this.stats.endTime - this.stats.startTime
reportDuration(c) == c.endTime - c.startTime

InitClock ==
  /\ IdleSync
  /\ IdleUnits({"clockCase"})
  /\ \E ver \in {"part_001", "part_003"} :
       clockCase = [pc |-> "idle", ver |-> ver, now |-> Epoch,
                    startTime |-> NullTime, endTime |-> NullTime,
                    started |-> 0, ended |-> 0, duration |-> 0, seconds |-> 0]

\* time passes, before a trigger or while a call or a timer is pending
ClockTick ==
  /\ clockCase.pc # "none"
  /\ clockCase.now < MaxTime
  /\ clockCase' = [clockCase EXCEPT !.now = @ + TimeStep]
  /\ UnitFrame({"clockCase"})

\* sync() is entered, for the first time or after an earlier run has ended:
\* resetStats, startTime = Date.now(), the fetch is sent
SyncStarts ==
  /\ clockCase.pc \in {"idle", "done", "threw"}
  /\ clockCase' = [clockCase EXCEPT !.pc = "fetch",
                                    !.startTime = clockCase.now,
                                    !.endTime = NullTime,
                                    !.started = clockCase.now]
  /\ UnitFrame({"clockCase"})

\* fetchProductsMultiSource settles: it throws, or returns n products; with no
\* product the report is built at once, and only part_001 sets endTime first
FetchSettles(kind) ==
  /\ clockCase.pc = "fetch"
  /\ LET at == [clockCase EXCEPT !.ended = clockCase.now]
         stamped == [at EXCEPT !.endTime = clockCase.now]
         reporting == IF clockCase.ver = "part_001" THEN stamped ELSE at
     IN clockCase' =
          CASE kind = "threw" -> [stamped EXCEPT !.pc = "threw"]
            [] kind = "none" -> [reporting EXCEPT
                                   !.pc = "done",
                                   !.duration = reportDuration(reporting),
                                   !.seconds = durationSeconds(reportDuration(reporting))]
            [] OTHER -> [clockCase EXCEPT !.pc = "batch"]
  /\ UnitFrame({"clockCase"})

\* processBatch returns: endTime = Date.now(), the report is built
BatchesEnd ==
  /\ clockCase.pc = "batch"
  /\ LET stamped == [clockCase EXCEPT !.endTime = clockCase.now,
                                      !.ended = clockCase.now]
     IN clockCase' = [stamped EXCEPT
                        !.pc = "done",
                        !.duration = reportDuration(stamped),
                        !.seconds = durationSeconds(reportDuration(stamped))]
  /\ UnitFrame({"clockCase"})

NextClock ==
  \/ SyncStarts
  \/ ClockTick
  \/ \E kind \in {"threw", "none", "some"} : FetchSettles(kind)
  \/ BatchesEnd

SpecClock == InitClock /\ [][NextClock]_vars

\* C35: the duration reported for a completed run is not negative and is the
\* time the run ended minus the time it started.
C35_DurationIsEndMinusStart ==
  clockCase.pc = "done" =>
    /\ clockCase.duration >= 0
    /\ clockCase.seconds >= 0
    /\ clockCase.duration = clockCase.ended - clockCase.started

(* ================= the filtered counter of the manager =================== *)

\* C36: in the v2 manager stats.filtered is the number of records the price
\* filter rejected, and success + error + filtered is the number of records
\* handled so far.
C36_FilteredCountsRejected ==
  mgr.ver = "v2" =>
    /\ mgr.stats.filtered =
         Cardinality({k \in DOMAIN mgr.results : mgr.results[k] = "filtered"})
    /\ mgr.stats.success + mgr.stats.error + mgr.stats.filtered = Len(mgr.results)

(* ================= the results list of syncProducts ====================== *)

\* the catch of the v2 record loop has logged the critical error: it pushes
\* its own entry and the loop goes on (the requestDelay sleep is skipped)
CriticalLogged ==
  /\ mgr.ver # "none"
  /\ mgr.pc = "critical"
  /\ mgr' = afterRecord([mgr EXCEPT !.results = Append(@, "critical")])
  /\ UnitFrame({"mgr"})

\* syncProducts called with a progress callback that returns or that throws
InitProgress ==
  /\ IdleSync
  /\ IdleUnits({"mgr"})
  /\ managerEnteredWith({"logs", "throws"})

NextProgress ==
  \/ NextManager
  \/ CriticalLogged

SpecProgress == InitProgress /\ [][NextProgress]_vars

\* C37: after a completed syncProducts run the results list holds one outcome
\* per input record, in input order, lastProcessedIndex is the number of input
\* records and success = created + updated.
C37_OneOutcomePerRecord ==
  (mgr.ver # "none" /\ mgr.pc = "done") =>
    /\ Len(mgr.results) = Len(mgr.products)
    /\ mgr.idx = Len(mgr.products)
    /\ mgr.stats.success = mgr.stats.created + mgr.stats.updated
    /\ \A k \in mgr.written : k \in DOMAIN mgr.results /\ mgr.results[k] = "success"

====
